---- MODULE Spec2Model ----
(***************************************************************************)
(* Model of the x-research-skill scripts:                                  *)
(*   - scripts/bookmarks.ts: the bookmark monitor (ingest, --show,         *)
(*     --clear), its relevance scoring and keyword extraction;             *)
(*   - scripts/auth/get-bookmark-token.ts: the OAuth 2.0 PKCE authorizer   *)
(*     and its local callback listener.                                    *)
(* Strings are sequences of one-character strings, so that toLowerCase,    *)
(* includes and the word filters are computed rather than assumed.         *)
(***************************************************************************)
EXTENDS Integers, Sequences, FiniteSets, TLC

VARIABLES
    \* ---- scoreRelevance harness
    scoreIn,        \* [tweetText, projects] handed to scoreRelevance
    scoreOut,       \* its result, or NoResult before the call
    \* ---- extractProjectKeywords harness
    kwDoc,          \* content of the active-projects document
    kwOut,          \* extractProjectKeywords' result, or <<>> before the call
    kwDone,
    \* ---- bookmark monitor
    seenFile,       \* data/seen-bookmarks.json
    alertsFile,     \* data/bookmark-alerts.json
    projectsFile,   \* ~/clawd/memory/active-projects.md
    run,            \* the running ingest process: pc and its locals
    hist,           \* observations of the current/last run
    printed,        \* what the last --show printed
    \* ---- authorizer
    state,          \* the state nonce generated at startup
    server,         \* "starting" | "listening" | "closed"
    exitCode,       \* -1 while the process runs, else its exit code
    handled,        \* log of the callback requests handled: [req, status]
    posts,          \* token-exchange POSTs issued: [req (index in handled), code]
    pending         \* indices of posts still awaiting their response

vars == <<scoreIn, scoreOut, kwDoc, kwOut, kwDone, seenFile, alertsFile,
          projectsFile, run, hist, printed, state, server, exitCode,
          handled, posts, pending>>

scoreVars   == <<scoreIn, scoreOut>>
kwVars      == <<kwDoc, kwOut, kwDone>>
monitorVars == <<seenFile, alertsFile, projectsFile, run, hist, printed>>
authVars    == <<state, server, exitCode, handled, posts, pending>>

-----------------------------------------------------------------------------
(* Generic helpers                                                         *)

Range(s) == { s[i] : i \in DOMAIN s }

SeqsUpTo(S, n) == UNION { [1..k -> S] : k \in 0..n }

Min(a, b) == IF a < b THEN a ELSE b

\* Array.prototype.slice(0, n)
Take(s, n) == SubSeq(s, 1, Min(n, Len(s)))

RECURSIVE SelectIdx(_, _, _)
\* indices i >= from of s, ascending, for which keep[i] holds
SelectIdx(s, keep, from) ==
    IF from > Len(s) THEN <<>>
    ELSE IF keep[from] THEN <<s[from]>> \o SelectIdx(s, keep, from + 1)
         ELSE SelectIdx(s, keep, from + 1)

UpperChars == <<"A", "B", "C", "D", "E", "F", "G", "H", "I", "J", "K", "L", "M",
                "N", "O", "P", "Q", "R", "S", "T", "U", "V", "W", "X", "Y", "Z">>
LowerChars == <<"a", "b", "c", "d", "e", "f", "g", "h", "i", "j", "k", "l", "m",
                "n", "o", "p", "q", "r", "s", "t", "u", "v", "w", "x", "y", "z">>

LowerChar(c) ==
    IF \E i \in DOMAIN UpperChars : UpperChars[i] = c
    THEN LowerChars[CHOOSE i \in DOMAIN UpperChars : UpperChars[i] = c]
    ELSE c

\* String.prototype.toLowerCase
toLowerCase(s) == [i \in DOMAIN s |-> LowerChar(s[i])]

\* String.prototype.includes
includes(text, kw) ==
    \E k \in 0..(Len(text) - Len(kw)) :
        \A j \in 1..Len(kw) : text[k + j] = kw[j]

-----------------------------------------------------------------------------
(* scoreRelevance (bookmarks.ts 144-165)                                   *)

\* the empty string is the empty sequence of characters
NoReason == [empty |-> TRUE, project |-> <<>>, matched |-> <<>>]

\* `Matches ${project}: ${matched.slice(0, 3).join(", ")}`
MatchReason(project, matched) ==
    [empty |-> FALSE, project |-> project, matched |-> Take(matched, 3)]

\* keywords.filter((kw) => text.includes(kw.toLowerCase()))
MatchedKeywords(text, keywords) ==
    SelectIdx(keywords,
              [i \in DOMAIN keywords |-> includes(text, toLowerCase(keywords[i]))],
              1)

\* variant: a single match falls through to the last branch (>= 2 for >= 1)
MutScoreOfOneIsOne(n) == IF n >= 3 THEN 3 ELSE IF n >= 2 THEN 2 ELSE 1
\* matched.length >= 3 ? 3 : matched.length >= 1 ? 2 : 1
ScoreOf(n) == IF n >= 3 THEN 3 ELSE IF n >= 1 THEN 2 ELSE 1

RECURSIVE ScoreLoop(_, _, _, _)
\* the for-of loop over projects, from index i with the running best
ScoreLoop(text, projects, i, best) ==
    IF i > Len(projects) THEN best
    ELSE LET p       == projects[i]
             matched == MatchedKeywords(text, p.keywords)
             score   == ScoreOf(Len(matched))
         IN  IF Len(matched) = 0
             THEN ScoreLoop(text, projects, i + 1, best)
             ELSE IF score > best.score
                  THEN ScoreLoop(text, projects, i + 1,
                                 [score   |-> score,
                                  reason  |-> MatchReason(p.project, matched),
                                  project |-> p.project])
                  ELSE ScoreLoop(text, projects, i + 1, best)

scoreRelevance(tweetText, projects) ==
    ScoreLoop(toLowerCase(tweetText), projects, 1,
              [score |-> 0, reason |-> NoReason, project |-> <<>>])

-----------------------------------------------------------------------------
(* Bookmark monitor: persisted files and process state (bookmarks.ts)      *)

\* the ingest process between runs: no locals
IdleRun ==
    [pc |-> "idle", bookmarks |-> <<>>, seen |-> <<>>, newBookmarks |-> <<>>,
     i |-> 0, projects |-> <<>>, alerts |-> <<>>, alertCount |-> 0]

\* nothing has run yet
NoHist ==
    [op |-> "none", prevOp |-> "none", result |-> "none", at |-> "none",
     priorSeenFile |-> [kind |-> "missing", ids |-> <<>>],
     priorAlertsFile |-> [kind |-> "missing", list |-> <<>>],
     fetched |-> <<>>, scored |-> <<>>, alertCount |-> 0]

-----------------------------------------------------------------------------
(* Harness for scoreRelevance: inputs from bounded sets                    *)

MaxTextLen  == 2
MaxProjects == 2

ScoreAlphabet == {"a", "b", "A"}
ScoreKeywords == {<<"a">>, <<"b">>, <<"a", "b">>}

\* keyword lists as the program builds them: lowercase, without duplicates
KeywordLists ==
    { ks \in SeqsUpTo(ScoreKeywords, Cardinality(ScoreKeywords)) :
        \A i, j \in DOMAIN ks : i # j => ks[i] # ks[j] }

ProjectNames == <<<<"p", "1">>, <<"p", "2">>, <<"p", "3">>, <<"p", "4">>>>
ProjectName(i) == ProjectNames[i]

ProjectTables ==
    { [i \in DOMAIN kss |-> [project |-> ProjectName(i), keywords |-> kss[i]]] :
        kss \in SeqsUpTo(KeywordLists, MaxProjects) }

NoResult == [score |-> -1, reason |-> NoReason, project |-> <<>>]

InitOther(own) ==
    /\ ("score" \in own \/ (scoreIn = [tweetText |-> <<>>, projects |-> <<>>] /\ scoreOut = NoResult))
    /\ ("kw" \in own \/ (kwDoc = <<>> /\ kwOut = <<>> /\ kwDone = FALSE))
    /\ ("monitor" \in own \/
          (/\ seenFile = [kind |-> "missing", ids |-> <<>>]
           /\ alertsFile = [kind |-> "missing", list |-> <<>>]
           /\ projectsFile = [kind |-> "missing", content |-> <<>>]
           /\ run = IdleRun
           /\ hist = NoHist
           /\ printed = <<>>))
    /\ ("auth" \in own \/
          (/\ state = "none" /\ server = "closed" /\ exitCode = 0
           /\ handled = <<>> /\ posts = <<>> /\ pending = {}))

InitScore ==
    /\ scoreIn \in [tweetText : SeqsUpTo(ScoreAlphabet, MaxTextLen),
                    projects  : ProjectTables]
    /\ scoreOut = NoResult
    /\ InitOther({"score"})

CallScoreRelevance ==
    /\ scoreOut = NoResult
    /\ scoreOut' = scoreRelevance(scoreIn.tweetText, scoreIn.projects)
    /\ UNCHANGED <<scoreIn, kwVars, monitorVars, authVars>>

NextScore == CallScoreRelevance

SpecScore == InitScore /\ [][NextScore]_vars

-----------------------------------------------------------------------------
(* C4                                                                      *)

\* number of keywords of project p occurring in the lowercased text
Occurring(text, p) ==
    Cardinality({ i \in DOMAIN p.keywords : includes(toLowerCase(text), p.keywords[i]) })

PerProjectScore(text, p) ==
    IF Occurring(text, p) >= 3 THEN 3
    ELSE IF Occurring(text, p) >= 1 THEN 2 ELSE 0

\* C4: scoreRelevance returns the maximum per-project score (3 for >= 3
\* occurring keywords, 2 for 1 or 2, 0 for none) with the earliest project
\* reaching it; score 0 carries empty project and reason; score is in {0,2,3}.
C4_ScoreRelevance ==
    scoreOut # NoResult =>
        LET text == scoreIn.tweetText
            ps   == scoreIn.projects
            per  == [i \in DOMAIN ps |-> PerProjectScore(text, ps[i])]
        IN  /\ scoreOut.score \in {0, 2, 3}
            /\ \A i \in DOMAIN ps : per[i] <= scoreOut.score
            /\ scoreOut.score = 0 =>
                   scoreOut.project = <<>> /\ scoreOut.reason = NoReason
            /\ scoreOut.score > 0 =>
                   \E i \in DOMAIN ps :
                       /\ per[i] = scoreOut.score
                       /\ \A j \in 1..(i - 1) : per[j] < per[i]
                       /\ scoreOut.project = ps[i].project
                       /\ scoreOut.reason.project = ps[i].project

\* a later project ties the score 3 of an earlier one, which keeps the result
C4_Witness ==
    /\ scoreOut # NoResult
    /\ Len(scoreIn.projects) = 2
    /\ PerProjectScore(scoreIn.tweetText, scoreIn.projects[1]) = 3
    /\ PerProjectScore(scoreIn.tweetText, scoreIn.projects[2]) = 3
    /\ \E i \in DOMAIN scoreIn.tweetText : scoreIn.tweetText[i] = "A"
    /\ scoreOut.score = 3

-----------------------------------------------------------------------------
(* extractProjectKeywords (bookmarks.ts 106-142)                           *)
(* The document is a sequence of lines; a line is a header ("## " followed *)
(* by its words) or body text, and its words are runs of letters separated *)
(* by single spaces.                                                       *)

KeywordCap == 10
MinWordLen == 4

stopWords == {
    <<"w", "i", "t", "h">>,
    <<"t", "h", "i", "s">>,
    <<"t", "h", "a", "t">>,
    <<"f", "r", "o", "m">>,
    <<"h", "a", "v", "e">>,
    <<"w", "i", "l", "l">>,
    <<"b", "e", "e", "n">>,
    <<"t", "h", "e", "y">>,
    <<"t", "h", "e", "i", "r">>,
    <<"s", "t", "a", "t", "u", "s">>,
    <<"n", "e", "x", "t">>,
    <<"a", "c", "t", "i", "o", "n">>,
    <<"l", "a", "s", "t">>,
    <<"w", "o", "r", "k", "e", "d">> }

\* the text of a line after "## ": its words joined by single spaces
RECURSIVE JoinWords(_)
JoinWords(ws) ==
    IF Len(ws) = 0 THEN <<>>
    ELSE IF Len(ws) = 1 THEN ws[1]
    ELSE ws[1] \o <<" ">> \o JoinWords(Tail(ws))

IsPrefix(a, b) == Len(a) <= Len(b) /\ SubSeq(b, 1, Len(a)) = a

\* content.match(/^## (.+)$/gm): the header lines, in document order
HeaderLines(content) ==
    SelectIdx([i \in DOMAIN content |-> i],
              [i \in DOMAIN content |-> content[i].header /\ Len(content[i].words) > 0],
              1)

\* content.indexOf(m): the first place the header's text occurs
IndexOfHeader(content, h) ==
    CHOOSE j \in DOMAIN content :
        /\ content[j].header
        /\ IsPrefix(JoinWords(content[h].words), JoinWords(content[j].words))
        /\ \A k \in 1..(j - 1) :
               ~(content[k].header /\
                 IsPrefix(JoinWords(content[h].words), JoinWords(content[k].words)))

\* content.indexOf("\n## ", sectionStart + 1), or Len + 1 when there is none
NextSection(content, start) ==
    IF \E j \in (start + 1)..Len(content) : content[j].header
    THEN CHOOSE j \in (start + 1)..Len(content) :
             content[j].header /\ \A k \in (start + 1)..(j - 1) : ~content[k].header
    ELSE Len(content) + 1

RECURSIVE Flatten(_)
Flatten(ss) == IF Len(ss) = 0 THEN <<>> ELSE ss[1] \o Flatten(Tail(ss))

\* content.slice(sectionStart, nextSection).toLowerCase().match(/\b[a-z]{4,}\b/g)
SectionWords(content, start) ==
    LET lines == SubSeq(content, start, NextSection(content, start) - 1)
        all   == Flatten([i \in DOMAIN lines |-> lines[i].words])
        lower == [i \in DOMAIN all |-> toLowerCase(all[i])]
    IN  SelectIdx(lower, [i \in DOMAIN lower |-> Len(lower[i]) >= MinWordLen], 1)

\* .filter((w) => !stopWords.has(w))
FilterStopWords(ws) == SelectIdx(ws, [i \in DOMAIN ws |-> ws[i] \notin stopWords], 1)

\* [...new Set(words)]: first occurrences, in order
Dedupe(ws) ==
    SelectIdx(ws, [i \in DOMAIN ws |-> \A j \in 1..(i - 1) : ws[j] # ws[i]], 1)

\* words = ...filter(...).slice(0, 10); keywords = [...new Set(words)]
SectionKeywords(ws) == Dedupe(Take(FilterStopWords(ws), KeywordCap))

\* the extracted table (the file exists and is readable)
ExtractedKeywords(content) ==
    LET hs == HeaderLines(content)
    IN  [i \in DOMAIN hs |->
            [project  |-> JoinWords(content[hs[i]].words),
             keywords |-> SectionKeywords(
                              SectionWords(content, IndexOfHeader(content, hs[i])))]]

Vocabulary == <<
    <<"a", "l", "p", "h", "a">>,
    <<"b", "r", "a", "v", "o">>,
    <<"c", "h", "a", "r", "l", "i", "e">>,
    <<"d", "e", "l", "t", "a">>,
    <<"e", "c", "h", "o">>,
    <<"f", "o", "x", "t", "r", "o", "t">>,
    <<"g", "o", "l", "f">>,
    <<"h", "o", "t", "e", "l">>,
    <<"i", "n", "d", "i", "a">>,
    <<"j", "u", "l", "i", "e", "t">>,
    <<"k", "i", "l", "o">>,
    <<"l", "i", "m", "a">>,
    <<"m", "i", "k", "e">>,
    <<"n", "o", "v", "e", "m", "b", "e", "r">> >>
defaults == <<
    [project  |-> <<"B", "N", "K", "R", "/", "B", "a", "n", "k", "r">>,
     keywords |-> <<
        <<"b", "a", "n", "k", "r">>,
        <<"b", "n", "k", "r">>,
        <<"c", "l", "a", "n", "k", "e", "r">>,
        <<"t", "o", "k", "e", "n", " ", "l", "a", "u", "n", "c", "h">>,
        <<"o", "n", "c", "h", "a", "i", "n">>,
        <<"l", "a", "u", "n", "c", "h", "p", "a", "d">>,
        <<"v", "e", "s", "t", "i", "n", "g">>,
        <<"e", "a", "r", "n", "i", "n", "g", "s", " ", "m", "e", "c", "h", "a", "n", "i", "s", "m">> >>],
    [project  |-> <<"b", "e", "l", "i", "e", "f", "-", "r", "o", "u", "t", "e", "r">>,
     keywords |-> <<
        <<"t", "r", "a", "d", "e", " ", "t", "h", "e", "s", "i", "s">>,
        <<"b", "e", "l", "i", "e", "f", " ", "r", "o", "u", "t", "e", "r">>,
        <<"m", "a", "r", "k", "e", "t", " ", "t", "h", "e", "s", "i", "s">>,
        <<"i", "n", "v", "e", "s", "t", "m", "e", "n", "t", " ", "t", "h", "e", "s", "i", "s">>,
        <<"o", "p", "t", "i", "o", "n", "s">>,
        <<"p", "e", "r", "p">>,
        <<"k", "a", "l", "s", "h", "i">> >>],
    [project  |-> <<"x", "-", "r", "e", "s", "e", "a", "r", "c", "h">>,
     keywords |-> <<
        <<"x", " ", "a", "p", "i">>,
        <<"t", "w", "i", "t", "t", "e", "r", " ", "a", "p", "i">>,
        <<"b", "o", "o", "k", "m", "a", "r", "k", "s">>,
        <<"t", "w", "e", "e", "t", " ", "s", "e", "a", "r", "c", "h">>,
        <<"s", "o", "c", "i", "a", "l", " ", "m", "e", "d", "i", "a", " ", "r", "e", "s", "e", "a", "r", "c", "h">> >>],
    [project  |-> <<"s", "e", "l", "l", "-", "r", "a", "d", "a", "r">>,
     keywords |-> <<
        <<"s", "e", "l", "l", " ", "s", "i", "g", "n", "a", "l">>,
        <<"l", "a", "d", "d", "e", "r">>,
        <<"m", "c", "a", "p">>,
        <<"d", "e", "x", "s", "c", "r", "e", "e", "n", "e", "r">>,
        <<"p", "o", "r", "t", "f", "o", "l", "i", "o", " ", "m", "a", "n", "a", "g", "e", "m", "e", "n", "t">> >>],
    [project  |-> <<"A", "n", "t", "h", "r", "o", "p", "i", "c">>,
     keywords |-> <<
        <<"a", "n", "t", "h", "r", "o", "p", "i", "c">>,
        <<"c", "l", "a", "u", "d", "e">>,
        <<"l", "l", "m">>,
        <<"a", "i", " ", "a", "g", "e", "n", "t">>,
        <<"s", "o", "l", "u", "t", "i", "o", "n", "s", " ", "a", "r", "c", "h", "i", "t", "e", "c", "t">>,
        <<"a", "p", "p", "l", "i", "e", "d", " ", "a", "i">> >>],
    [project  |-> <<"t", "r", "a", "d", "i", "n", "g">>,
     keywords |-> <<
        <<"s", "o", "l", "a", "n", "a">>,
        <<"b", "a", "s", "e">>,
        <<"m", "e", "m", "e", "c", "o", "i", "n">>,
        <<"f", "o", "m", "o">>,
        <<"d", "e", "x">>,
        <<"w", "a", "l", "l", "e", "t">>,
        <<"d", "e", "f", "i">>,
        <<"p", "n", "l">> >>] >>

\* the project document: missing/unreadable, or its content
extractProjectKeywords(file) ==
    IF file.kind # "text" THEN defaults
    ELSE LET extracted == ExtractedKeywords(file.content)
         IN  IF Len(extracted) > 0 THEN extracted ELSE defaults

-----------------------------------------------------------------------------
(* Harness for extractProjectKeywords: documents from a bounded family     *)

MaxDup      == 2
MaxDistinct == 10

Fillers == { <<>>, <<<<"w", "i", "t", "h">>>>, <<<<"a", "b", "c">>>>, <<<<"A", "L", "P", "H", "A">>>> }

HeaderLine(ws) == [header |-> TRUE, words |-> ws]
BodyLine(ws)   == [header |-> FALSE, words |-> ws]

\* dup repetitions of the first vocabulary word, a filler, then n distinct words
FamilyBody(dup, filler, n) ==
    [i \in 1..dup |-> Vocabulary[1]] \o filler \o [i \in 1..n |-> Vocabulary[i]]

\* what follows the first section: nothing, a second section, or a header
\* line without text ("## ") and more body
FamilyTail(k, filler) ==
    CASE k = 0 -> <<>>
      [] k = 1 -> <<HeaderLine(<<<<"D", "e", "x">>, <<"t", "o", "o", "l", "s">>>>), BodyLine(FamilyBody(1, filler, 2))>>
      [] OTHER -> <<HeaderLine(<<>>), BodyLine(<<Vocabulary[2]>>)>>

FamilyDocs ==
    { <<HeaderLine(<<<<"S", "o", "l", "a", "n", "a">>>>), BodyLine(FamilyBody(dup, filler, n))>>
          \o FamilyTail(k, filler) :
        dup \in 0..MaxDup, filler \in Fillers, n \in 0..MaxDistinct, k \in {0, 1, 2} }

InitKw ==
    /\ kwDoc \in FamilyDocs
    /\ kwOut = <<>>
    /\ kwDone = FALSE
    /\ InitOther({"kw"})

CallExtractProjectKeywords ==
    /\ ~kwDone
    /\ kwOut' = extractProjectKeywords([kind |-> "text", content |-> kwDoc])
    /\ kwDone' = TRUE
    /\ UNCHANGED <<kwDoc, scoreVars, monitorVars, authVars>>

NextKw == CallExtractProjectKeywords

SpecKw == InitKw /\ [][NextKw]_vars

-----------------------------------------------------------------------------
(* C8                                                                      *)

\* the lines of the i-th level-2 header section of the document
SectionOf(content, i) ==
    LET hs == HeaderLines(content)
    IN  SubSeq(content, hs[i], NextSection(content, hs[i]) - 1)

\* the lowercase words of length >= 4 of a section that are no stop words
Qualifying(lines) ==
    LET all == Flatten([k \in DOMAIN lines |-> lines[k].words])
    IN  SelectIdx([k \in DOMAIN all |-> toLowerCase(all[k])],
                  [k \in DOMAIN all |-> /\ Len(all[k]) >= 4
                                        /\ toLowerCase(all[k]) \notin stopWords],
                  1)

\* C8: each section's keyword list is the first 10 distinct qualifying words
\* of the section (deduplicated first, then capped at 10).
C8_DedupeThenCap ==
    kwDone =>
        \A i \in DOMAIN kwOut :
            kwOut[i].keywords = Take(Dedupe(Qualifying(SectionOf(kwDoc, i))), 10)

\* what the code yields instead: the distinct words among the first 10
\* qualifying words (capped first, then deduplicated)
C8_CapThenDedupe ==
    kwDone =>
        \A i \in DOMAIN kwOut :
            kwOut[i].keywords = Dedupe(Take(Qualifying(SectionOf(kwDoc, i)), 10))

\* a section with at least 10 distinct qualifying words yielding fewer than 10
C8_FewerThanTen ==
    /\ kwDone
    /\ \E i \in DOMAIN kwOut :
           /\ Len(Dedupe(Qualifying(SectionOf(kwDoc, i)))) >= 10
           /\ Len(kwOut[i].keywords) < 10

-----------------------------------------------------------------------------
(* Authorizer: the callback listener (get-bookmark-token.ts 60-126)        *)

MaxRequests == 3

Nonces == {"n1", "n2"}

\* a query parameter: url.searchParams.get(name) is null when absent
Absent     == [present |-> FALSE, value |-> ""]
Given(v)   == [present |-> TRUE, value |-> v]

CodeParams  == {Absent, Given(""), Given("c1")}
StateParams == {Absent} \cup { Given(n) : n \in Nonces }
Requests    == [code : CodeParams, state : StateParams]

\* !code: null or the empty string
NoCode(req) == ~req.code.present \/ req.code.value = ""

\* returnedState !== state
StateDiffers(req, nonce) == ~req.state.present \/ req.state.value # nonce

\* variant: the state comparison is left out
MutNoStateCheck(req, nonce) ==
    IF NoCode(req) THEN [status |-> 400, exchange |-> FALSE]
    ELSE [status |-> 200, exchange |-> TRUE]
\* the handler up to its first await: the status written, and whether the
\* token-exchange POST is issued
HandleRequest(req, nonce) ==
    IF NoCode(req) THEN [status |-> 400, exchange |-> FALSE]
    ELSE IF StateDiffers(req, nonce) THEN [status |-> 400, exchange |-> FALSE]
    ELSE [status |-> 200, exchange |-> TRUE]

Running == exitCode = -1

InitAuth ==
    /\ state \in Nonces
    /\ server = "starting"
    /\ exitCode = -1
    /\ handled = <<>>
    /\ posts = <<>>
    /\ pending = {}
    /\ InitOther({"auth"})

\* server.listen(3000, ...) succeeds
Listen ==
    /\ Running /\ server = "starting"
    /\ server' = "listening"
    /\ UNCHANGED <<state, exitCode, handled, posts, pending,
                   scoreVars, kwVars, monitorVars>>

\* server.on("error", ...): the port is in use; process.exit(1)
ListenError ==
    /\ Running /\ server = "starting"
    /\ server' = "closed"
    /\ exitCode' = 1
    /\ UNCHANGED <<state, handled, posts, pending, scoreVars, kwVars, monitorVars>>

\* a request arrives at the listener; the handler runs to its first await
Callback(req) ==
    /\ Running /\ server = "listening"
    /\ Len(handled) < MaxRequests
    /\ LET r == HandleRequest(req, state)
       IN  /\ handled' = Append(handled, [req |-> req, status |-> r.status])
           /\ IF r.exchange
              THEN /\ posts' = Append(posts, [req  |-> Len(handled) + 1,
                                              code |-> req.code.value])
                   /\ pending' = pending \cup {Len(posts) + 1}
              ELSE UNCHANGED <<posts, pending>>
    /\ UNCHANGED <<state, server, exitCode, scoreVars, kwVars, monitorVars>>

\* the token endpoint answers POST p and the handler resumes: tokens.error
\* exits 1, tokens are printed and exit 0; a rejected fetch or unparsable
\* body is an unhandled rejection, which ends the process with code 1
TokenResponse(p, outcome) ==
    /\ Running
    /\ p \in pending
    /\ pending' = pending \ {p}
    /\ server' = "closed"
    /\ exitCode' = IF outcome = "tokens" THEN 0 ELSE 1
    /\ UNCHANGED <<state, handled, posts, scoreVars, kwVars, monitorVars>>

NextAuth ==
    \/ Listen
    \/ ListenError
    \/ \E req \in Requests : Callback(req)
    \/ \E p \in pending, outcome \in {"tokens", "error", "reject"} :
           TokenResponse(p, outcome)

SpecAuth == InitAuth /\ [][NextAuth]_vars

-----------------------------------------------------------------------------
(* C1, C2, C9                                                              *)

\* the POSTs caused by the i-th handled request
PostsOf(i) == { p \in DOMAIN posts : posts[p].req = i }

\* C1: every handled request whose state differs from the nonce, or whose
\* code is missing, was answered 400 and caused no token-exchange POST.
C1_BadRequestNeverExchanges ==
    \A i \in DOMAIN handled :
        LET req == handled[i].req
        IN  (~req.code.present \/ ~req.state.present \/ req.state.value # state)
                => handled[i].status = 400 /\ PostsOf(i) = {}

\* a state-mismatch request with a code, after a valid request that did
\* trigger the exchange, and followed by a request without a code
C1_Witness ==
    /\ Len(handled) = 3
    /\ handled[1].status = 200 /\ PostsOf(1) # {}
    /\ handled[2].req.code = Given("c1")
    /\ handled[2].req.state.present /\ handled[2].req.state.value # state
    /\ handled[2].status = 400
    /\ ~handled[3].req.code.present

\* C2: the listener handles exactly one request in the process's lifetime.
C2_OnlyOneRequestHandled == Len(handled) <= 1

\* C9: at most one token-exchange POST is issued per process run.
C9_AtMostOnePost == Len(posts) <= 1

-----------------------------------------------------------------------------
(* Bookmark monitor: state management and main (bookmarks.ts 169-295)      *)

MaxFetch == 2

AlertThreshold == 2
ShowTextLen    == 120

\* texts of the bookmarks the API can return, by id (a bookmark is immutable)
Catalogue == <<
    <<"B", "a", "n", "k", "r", " ", "b", "n", "k", "r", " ", "c", "l", "a", "n", "k", "e", "r">>,
    <<"g", "m", " ", "S", "o", "l", "a", "n", "a">>,
    <<"H", "e", "l", "l", "o", " ", "t", "o", "o", "l", "s">> >>

\* bookmark ids
Ids == DOMAIN Catalogue

BookmarkText(id) == Catalogue[id]

Bookmark(id) == [id |-> id, text |-> BookmarkText(id)]

\* json.data || []: up to MaxFetch items, ids possibly repeated
Responses == { [k \in DOMAIN ids |-> Bookmark(ids[k])] : ids \in SeqsUpTo(Ids, MaxFetch) }

\* the active-projects document: absent, or a document with one project
ProjectDoc ==
    <<HeaderLine(<<<<"A", "g", "e", "n", "t", "s">>>>), BodyLine(<<<<"c", "l", "a", "u", "d", "e">>, <<"s", "o", "l", "a", "n", "a">>, <<"t", "o", "o", "l", "s">>>>)>>

ProjectFiles ==
    { [kind |-> "missing", content |-> <<>>], [kind |-> "text", content |-> ProjectDoc] }

\* variant: the seen file is never read
MutLoadSeenEmpty(file) == <<>>
\* loadSeen: new Set(Array.isArray(data) ? data : []), empty when the file is
\* missing or does not parse; a Set keeps first insertions in order
loadSeen(file) == IF file.kind = "array" THEN Dedupe(file.ids) ELSE <<>>

\* saveSeen: JSON.stringify([...seen])
saveSeen(seen) == [kind |-> "array", ids |-> seen]

\* variant: the alerts file is never read, so a run starts from an empty list
MutLoadAlertsEmpty(file) == <<>>
\* loadAlerts: the parsed list, [] when the file is missing or does not parse
loadAlerts(file) == IF file.kind = "array" THEN file.list ELSE <<>>

\* saveAlerts
saveAlerts(alerts) == [kind |-> "array", list |-> alerts]

\* seen.has(id)
SeenHas(seen, id) == \E k \in DOMAIN seen : seen[k] = id

\* seen.add(id)
SeenAdd(seen, id) == IF SeenHas(seen, id) THEN seen ELSE Append(seen, id)

\* bookmarks.filter((b) => !seen.has(b.id))
NewBookmarks(bookmarks, seen) ==
    SelectIdx(bookmarks, [k \in DOMAIN bookmarks |-> ~SeenHas(seen, bookmarks[k].id)], 1)

\* the alert pushed for a bookmark (its timestamp, the wall clock, is left out)
MakeAlert(bm, sr) ==
    [id |-> bm.id, url |-> <<"https://x.com/i/web/status/", bm.id>>, text |-> bm.text,
     relevance_score |-> sr.score, reason |-> sr.reason, project |-> sr.project]

\* variant: alerts.unshift(a)
MutUnshiftAlert(alerts, a) == <<a>> \o alerts
\* alerts.push(a)
PushAlert(alerts, a) == Append(alerts, a)

\* one iteration of the loop over newBookmarks
LoopBody(r) ==
    LET bm == r.newBookmarks[r.i]
        sr == scoreRelevance(bm.text, r.projects)
        hit == sr.score >= AlertThreshold
    IN  [r EXCEPT !.seen = SeenAdd(r.seen, bm.id),
                  !.alerts = IF hit THEN PushAlert(r.alerts, MakeAlert(bm, sr)) ELSE r.alerts,
                  !.alertCount = IF hit THEN r.alertCount + 1 ELSE r.alertCount,
                  !.i = r.i + 1,
                  !.pc = IF r.i = Len(r.newBookmarks) THEN "saveSeen" ELSE "loop"]

\* what --show prints for the alerts, one entry each
ShowEntries(alerts) ==
    [k \in DOMAIN alerts |->
        [relevance_score |-> alerts[k].relevance_score, project |-> alerts[k].project,
         text |-> Take(alerts[k].text, ShowTextLen), reason |-> alerts[k].reason,
         url |-> alerts[k].url]]

InitMonitor ==
    /\ seenFile \in { [kind |-> k, ids |-> <<>>] : k \in {"missing", "malformed", "nonarray"} }
    /\ alertsFile \in { [kind |-> k, list |-> <<>>] : k \in {"missing", "malformed"} }
    /\ projectsFile \in ProjectFiles
    /\ run = IdleRun
    /\ hist = NoHist
    /\ printed = <<>>
    /\ InitOther({"monitor"})

Finish(result, at) ==
    /\ run' = IdleRun
    /\ hist' = [hist EXCEPT !.result = result, !.at = at,
                            !.alertCount = run.alertCount]

\* a run without --show/--clear starts: getOAuth2Token; without a token exit(1)
StartIngest(tokenFound) ==
    /\ run.pc = "idle"
    /\ hist' = [NoHist EXCEPT !.op = "ingest", !.prevOp = hist.op,
                              !.result = IF tokenFound THEN "running" ELSE "aborted",
                              !.at = IF tokenFound THEN "none" ELSE "token",
                              !.priorSeenFile = seenFile,
                              !.priorAlertsFile = alertsFile]
    /\ run' = IF tokenFound THEN [IdleRun EXCEPT !.pc = "userId"] ELSE IdleRun
    /\ UNCHANGED <<seenFile, alertsFile, projectsFile, printed,
                   scoreVars, kwVars, authVars>>

\* getUserId from the environment, or lookupUserId, which throws when !res.ok
ResolveUserId(outcome) ==
    /\ run.pc = "userId"
    /\ IF outcome = "lookupFailed"
       THEN Finish("aborted", "userId")
       ELSE run' = [run EXCEPT !.pc = "fetch"] /\ UNCHANGED hist
    /\ UNCHANGED <<seenFile, alertsFile, projectsFile, printed,
                   scoreVars, kwVars, authVars>>

\* fetchBookmarks returns the items of a 2xx response
FetchOk(resp) ==
    /\ run.pc = "fetch"
    /\ run' = [run EXCEPT !.pc = "filter", !.bookmarks = resp]
    /\ hist' = [hist EXCEPT !.fetched = resp]
    /\ UNCHANGED <<seenFile, alertsFile, projectsFile, printed,
                   scoreVars, kwVars, authVars>>

\* fetchBookmarks throws: 401, another non-2xx status, or a failed request
FetchFailed(outcome) ==
    /\ run.pc = "fetch"
    /\ Finish("aborted", "fetch")
    /\ UNCHANGED <<seenFile, alertsFile, projectsFile, printed,
                   scoreVars, kwVars, authVars>>

\* loadSeen, the filter, and either "Nothing new." (exit 0) or the loop's setup
Filter ==
    /\ run.pc = "filter"
    /\ LET seen == loadSeen(seenFile)
           new  == NewBookmarks(run.bookmarks, seen)
       IN  IF Len(new) = 0
           THEN Finish("nothingNew", "none")
           ELSE /\ run' = [run EXCEPT !.pc = "loop", !.seen = seen, !.newBookmarks = new,
                                      !.i = 1,
                                      !.projects = extractProjectKeywords(projectsFile),
                                      !.alerts = loadAlerts(alertsFile),
                                      !.alertCount = 0]
                /\ UNCHANGED hist
    /\ UNCHANGED <<seenFile, alertsFile, projectsFile, printed,
                   scoreVars, kwVars, authVars>>

\* variant: the seen-set is written back in every iteration
MutLoopStepSaves ==
    /\ run.pc = "loop"
    /\ run' = LoopBody(run)
    /\ hist' = [hist EXCEPT !.scored = Append(hist.scored, run.newBookmarks[run.i])]
    /\ seenFile' = saveSeen(run'.seen)
    /\ UNCHANGED <<alertsFile, projectsFile, printed, scoreVars, kwVars, authVars>>
\* one iteration: mark seen, score, push an alert at score >= 2
LoopStep ==
    /\ run.pc = "loop"
    /\ run' = LoopBody(run)
    /\ hist' = [hist EXCEPT !.scored = Append(hist.scored, run.newBookmarks[run.i])]
    /\ UNCHANGED <<seenFile, alertsFile, projectsFile, printed,
                   scoreVars, kwVars, authVars>>

\* saveSeen(seen)
SaveSeen ==
    /\ run.pc = "saveSeen"
    /\ seenFile' = saveSeen(run.seen)
    /\ run' = [run EXCEPT !.pc = "saveAlerts"]
    /\ UNCHANGED <<alertsFile, projectsFile, hist, printed, scoreVars, kwVars, authVars>>

\* saveAlerts(alerts), the summary line, and the end of the run
SaveAlerts ==
    /\ run.pc = "saveAlerts"
    /\ alertsFile' = saveAlerts(run.alerts)
    /\ Finish("done", "none")
    /\ UNCHANGED <<seenFile, projectsFile, printed, scoreVars, kwVars, authVars>>

\* the run stops where it is: an exception reaches the catch block (exit 1),
\* or the process is killed
Crash ==
    /\ run.pc \in {"filter", "loop", "saveSeen", "saveAlerts"}
    /\ Finish("aborted", run.pc)
    /\ UNCHANGED <<seenFile, alertsFile, projectsFile, printed,
                   scoreVars, kwVars, authVars>>

\* --show
Show ==
    /\ run.pc = "idle"
    /\ printed' = ShowEntries(loadAlerts(alertsFile))
    /\ hist' = [hist EXCEPT !.op = "show", !.prevOp = hist.op]
    /\ UNCHANGED <<seenFile, alertsFile, projectsFile, run, scoreVars, kwVars, authVars>>

\* --clear
Clear ==
    /\ run.pc = "idle"
    /\ alertsFile' = saveAlerts(<<>>)
    /\ hist' = [hist EXCEPT !.op = "clear", !.prevOp = hist.op]
    /\ UNCHANGED <<seenFile, projectsFile, run, printed, scoreVars, kwVars, authVars>>

NextMonitor ==
    \/ \E tokenFound \in BOOLEAN : StartIngest(tokenFound)
    \/ \E outcome \in {"env", "lookedUp", "lookupFailed"} : ResolveUserId(outcome)
    \/ \E resp \in Responses : FetchOk(resp)
    \/ \E outcome \in {"401", "status", "network"} : FetchFailed(outcome)
    \/ Filter
    \/ LoopStep
    \/ SaveSeen
    \/ SaveAlerts
    \/ Crash
    \/ Show
    \/ Clear

SpecMonitor == InitMonitor /\ [][NextMonitor]_vars

-----------------------------------------------------------------------------
(* C3, C5, C6, C7, C10                                                     *)

\* the ids a seen file holds, read off the file itself
PersistedSeen(file) == IF file.kind = "array" THEN Range(file.ids) ELSE {}

\* the alert list an alerts file holds, read off the file itself
PersistedAlerts(file) == IF file.kind = "array" THEN file.list ELSE <<>>

\* an ingest run has just ended with the given result
JustEnded(result) == run.pc = "idle" /\ hist.op = "ingest" /\ hist.result = result

PriorSeen == PersistedSeen(hist.priorSeenFile)
PriorAlerts == PersistedAlerts(hist.priorAlertsFile)

\* the fetched items whose ids were not in the seen-set before the run
UnseenFetched ==
    SelectIdx(hist.fetched,
              [k \in DOMAIN hist.fetched |-> hist.fetched[k].id \notin PriorSeen], 1)

FinalScore(bm) == scoreRelevance(bm.text, extractProjectKeywords(projectsFile)).score

\* the scored items that reach the alert threshold, in scoring order
RelevantScored ==
    SelectIdx(hist.scored, [k \in DOMAIN hist.scored |-> FinalScore(hist.scored[k]) >= 2], 1)

C3_AfterRun ==
    (JustEnded("done") \/ JustEnded("nothingNew")) =>
        /\ PersistedSeen(seenFile) =
               PriorSeen \cup { hist.fetched[k].id : k \in DOMAIN hist.fetched }
        /\ hist.scored = UnseenFetched
        /\ Len(hist.scored) =
               Len(hist.fetched)
                 - Cardinality({ k \in DOMAIN hist.fetched : hist.fetched[k].id \in PriorSeen })

C3_NeverLoses == PersistedSeen(seenFile) \subseteq PersistedSeen(seenFile')

\* C3: after an ingest run that fetched N items, M of them seen before, the
\* persisted seen-set is its prior contents with all N ids added and exactly
\* the N-M unseen items were scored; no step of any ingest, --show or --clear
\* run removes an id from the persisted seen-set.
C3_SeenSet == [](C3_AfterRun) /\ [][C3_NeverLoses]_vars

\* a completed run that fetched two items, one of them seen before
C3_Witness ==
    /\ JustEnded("done")
    /\ Len(hist.fetched) = 2
    /\ hist.fetched[1].id \in PriorSeen
    /\ hist.fetched[2].id \notin PriorSeen
    /\ Len(hist.scored) = 1

C5_AfterRun ==
    JustEnded("done") =>
        LET now == PersistedAlerts(alertsFile)
            rel == RelevantScored
            p   == Len(PriorAlerts)
        IN  /\ IsPrefix(PriorAlerts, now)
            /\ Len(now) = p + Len(rel)
            /\ \A k \in DOMAIN rel :
                   /\ now[p + k].id = rel[k].id
                   /\ now[p + k].text = rel[k].text
                   /\ now[p + k].relevance_score = FinalScore(rel[k])
            /\ \A k \in DOMAIN hist.scored :
                   FinalScore(hist.scored[k]) < 2 =>
                       /\ hist.scored[k].id \in PersistedSeen(seenFile)
                       /\ \A j \in (p + 1)..Len(now) : now[j].id # hist.scored[k].id

C5_OnlyAppended ==
    Clear \/ IsPrefix(PersistedAlerts(alertsFile), PersistedAlerts(alertsFile'))

\* C5: a completed ingest run appends one alert per unseen item scoring >= 2,
\* in order, after the unchanged prior alert list; unseen items scoring below
\* 2 are marked seen without an alert; no step other than --clear changes or
\* removes an existing alert.
C5_Alerts == [](C5_AfterRun) /\ [][C5_OnlyAppended]_vars

\* a completed run that kept an earlier alert, appended a new one and marked
\* an irrelevant item seen
C5_Witness ==
    /\ JustEnded("done")
    /\ Len(PriorAlerts) >= 1
    /\ hist.alertCount >= 1
    /\ \E k \in DOMAIN hist.scored : FinalScore(hist.scored[k]) < 2

\* C6: while an ingest run has not finished its scoring loop, and after it
\* aborted before finishing it (no token, failed user lookup, failed fetch,
\* crash before or in the loop), both files are as they were before the run.
C6_AbortPersistsNothing ==
    (\/ run.pc \in {"userId", "fetch", "filter", "loop"}
     \/ (JustEnded("aborted") /\ hist.at \in {"token", "userId", "fetch", "filter", "loop"}))
        => seenFile = hist.priorSeenFile /\ alertsFile = hist.priorAlertsFile

\* a run that crashed in the loop after it had scored an item and pushed an
\* alert, with another item left
C6_Witness ==
    /\ JustEnded("aborted")
    /\ hist.at = "loop"
    /\ hist.alertCount >= 1
    /\ Len(hist.scored) < Len(UnseenFetched)

\* --show has just run, right after a completed ingest run
ShownAfterIngest ==
    run.pc = "idle" /\ hist.op = "show" /\ hist.prevOp = "ingest" /\ hist.result = "done"

\* C7 as stated: --show after an ingest run producing K alerts prints exactly
\* K entries.
C7_ShowPrintsExactlyK == ShownAfterIngest => Len(printed) = hist.alertCount

\* C7 amended: --show after a completed ingest run that produced K alerts
\* prints the entries of the alert list as it was before the run, followed by
\* exactly the K new entries in append order.
C7_ShowPrintsPriorThenK ==
    ShownAfterIngest =>
        LET rel == RelevantScored
            p   == Len(PriorAlerts)
        IN  /\ hist.alertCount = Len(rel)
            /\ Len(printed) = p + hist.alertCount
            /\ \A k \in 1..p :
                   /\ printed[k].url = PriorAlerts[k].url
                   /\ printed[k].text = PriorAlerts[k].text
            /\ \A k \in DOMAIN rel :
                   /\ printed[p + k].url = <<"https://x.com/i/web/status/", rel[k].id>>
                   /\ printed[p + k].text = rel[k].text
                   /\ printed[p + k].relevance_score = FinalScore(rel[k])

\* --show after a run that added two alerts to a list already holding one
C7_Witness ==
    /\ ShownAfterIngest
    /\ Len(PriorAlerts) = 1
    /\ hist.alertCount = 2
    /\ Len(printed) = 3

\* C10: the persisted alert list never holds two alerts with the same id.
C10_NoDuplicateAlertIds ==
    LET list == PersistedAlerts(alertsFile)
    IN  \A i, j \in DOMAIN list : i # j => list[i].id # list[j].id

-----------------------------------------------------------------------------
(* C11                                                                     *)

\* an ingest run has stopped, in whatever way, and nothing has run since
RunStopped == run.pc = "idle" /\ hist.op = "ingest"

\* the ids the run added to the persisted seen-set
AddedToSeen == PersistedSeen(seenFile) \ PriorSeen

\* C11: wherever an ingest run stops (in particular between the write of the
\* seen file and the write of the alerts file), every id the run added to the
\* persisted seen-set whose bookmark scores >= 2 has an alert in the
\* persisted alert list.
C11_SeenImpliesAlerted ==
    RunStopped =>
        \A id \in AddedToSeen :
            FinalScore(Bookmark(id)) >= 2 =>
                \E k \in DOMAIN PersistedAlerts(alertsFile) :
                    PersistedAlerts(alertsFile)[k].id = id

====
